---- MODULE Spec2Model ----
(***************************************************************************)
(* A model of make.py, the batch builder of the tree-sitter grammars.      *)
(*                                                                         *)
(* build() walks a list of grammar directories.  For each one it applies   *)
(* the exclusion and relocation rules (prep phase), runs the external      *)
(* commands of every build unit through ts_build()/run() (build phase) and *)
(* copies one license file into the output directory (license phase).     *)
(*                                                                         *)
(* The environment is modelled by nondeterminism: the exit status of every *)
(* external command, whether a successful compile left its library behind, *)
(* and the files found in the source path when the license is looked up.   *)
(* A path is the sequence of its components, a file name is a string.      *)
(***************************************************************************)
EXTENDS Integers, Sequences, FiniteSets, TLC

\* Bounds of the model.
MaxBatch == 2   \* entries in the grammars directory / paths given to "build"
MaxFiles == 2   \* files present in a source path when the license is resolved
MaxOutput == 2  \* bytes a command prints on one stream

-----------------------------------------------------------------------------
(* Strings and paths *)

\* The characters that occur in the names, in the order of their code points.
Alphabet == "-./ABCDEFGHIJKLMNOPQRSTUVWXYZabcdefghijklmnopqrstuvwxyz"

Ord(c) == CHOOSE i \in 1..Len(Alphabet) : SubSeq(Alphabet, i, i) = c

\* str.startswith, and the match of the glob pattern "<prefix>*".
StartsWith(s, prefix) ==
    /\ Len(s) >= Len(prefix)
    /\ SubSeq(s, 1, Len(prefix)) = prefix

\* a < b for two strings: the first differing character decides, a proper
\* prefix is the smaller one.
RECURSIVE StrLessFrom(_, _, _)
StrLessFrom(a, b, i) ==
    IF i > Len(b) THEN FALSE
    ELSE IF i > Len(a) THEN TRUE
    ELSE IF SubSeq(a, i, i) = SubSeq(b, i, i) THEN StrLessFrom(a, b, i + 1)
    ELSE Ord(SubSeq(a, i, i)) < Ord(SubSeq(b, i, i))

StrLess(a, b) == StrLessFrom(a, b, 1)

\* p < q for two paths: compared part by part.
RECURSIVE PathLessFrom(_, _, _)
PathLessFrom(p, q, i) ==
    IF i > Len(q) THEN FALSE
    ELSE IF i > Len(p) THEN TRUE
    ELSE IF p[i] = q[i] THEN PathLessFrom(p, q, i + 1)
    ELSE StrLess(p[i], q[i])

PathLess(p, q) == PathLessFrom(p, q, 1)

\* The working directory the script was started in (absolute, resolved).
cwd == <<"/", "repo">>

IsAbsolute(p) == Len(p) > 0 /\ p[1] = "/"

joinpath(p, parts) == p \o parts

PathName(p) == p[Len(p)]

\* Path.resolve(): make the path absolute and fold every ".." part.
RECURSIVE FoldDots(_, _)
FoldDots(done, rest) ==
    IF rest = <<>> THEN done
    ELSE IF Head(rest) = ".."
         THEN FoldDots(IF Len(done) > 1 THEN SubSeq(done, 1, Len(done) - 1)
                       ELSE done, Tail(rest))
    ELSE FoldDots(Append(done, Head(rest)), Tail(rest))

resolve(p) == FoldDots(<<>>, IF IsAbsolute(p) THEN p ELSE cwd \o p)

\* str(path)
RECURSIVE JoinParts(_, _)
JoinParts(p, i) ==
    IF i > Len(p) THEN ""
    ELSE IF i = Len(p) THEN p[i]
    ELSE p[i] \o "/" \o JoinParts(p, i + 1)

PathStr(p) == IF IsAbsolute(p) THEN "/" \o JoinParts(p, 2) ELSE JoinParts(p, 1)

\* sorted() gone wrong: the largest remaining path first.
RECURSIVE sorted_Descending(_)
sorted_Descending(S) ==
    IF S = {} THEN <<>>
    ELSE LET m == CHOOSE x \in S : \A y \in S : ~PathLess(x, y)
         IN  <<m>> \o sorted_Descending(S \ {m})

\* sorted(): the smallest remaining path first.
RECURSIVE sorted(_)
sorted(S) ==
    IF S = {} THEN <<>>
    ELSE LET m == CHOOSE x \in S : \A y \in S : ~PathLess(y, x)
         IN  <<m>> \o sorted(S \ {m})

-----------------------------------------------------------------------------
(* The environment *)

\* What may lie in the grammars directory or be named on the command line.
GrammarNames ==
    { "tree-sitter-adl", "tree-sitter-angular", "tree-sitter-astro",
      "tree-sitter-c-sharp", "tree-sitter-cpp", "tree-sitter-dhall",
      "tree-sitter-glimmer", "tree-sitter-glsl", "tree-sitter-markdown",
      "tree-sitter-ocaml", "tree-sitter-odin", "tree-sitter-php",
      "tree-sitter-rcl", "tree-sitter-ron", "tree-sitter-rust",
      "tree-sitter-slint", "tree-sitter-typescript", "tree-sitter-wasm" }

\* Entries that are not directories.
PlainFiles == { "README.md" }

EntryNames == GrammarNames \cup PlainFiles

\* One entry of every kind: not a directory, excluded, relocated with an
\* explicit license path, relocated and built and licensed by default, built
\* in several units.  Batches of several entries are drawn from these; every
\* entry of EntryNames is also run as a batch of its own.
CoreNames ==
    { "README.md", "tree-sitter-adl", "tree-sitter-php", "tree-sitter-rcl",
      "tree-sitter-wasm" }

\* The names given together, in any order and repeated, to "build": the
\* entries of CoreNames that are built in one unit.
ArgNames == CoreNames \ { "tree-sitter-wasm" }

\* Files that may lie directly in a source path.
SourceFiles == { "LICENSE", "LICENSE.txt", "COPYING", "COPYING.LESSER", "grammar.js" }

Platforms == { "Linux", "Windows" }

is_dir(p) == PathName(p) \notin PlainFiles

\* Subsets of S with at most n elements.
RECURSIVE SetsUpTo(_, _)
SetsUpTo(S, n) ==
    IF n = 0 THEN {{}}
    ELSE LET smaller == SetsUpTo(S, n - 1)
         IN  smaller \cup {T \cup {x} : T \in smaller, x \in S}

\* Sequences over S of length 1..n.
RECURSIVE SeqsUpTo(_, _)
SeqsUpTo(S, n) ==
    IF n = 0 THEN {}
    ELSE LET shorter == SeqsUpTo(S, n - 1)
         IN  {<<x>> : x \in S} \cup shorter
               \cup {Append(s, x) : s \in shorter, x \in S}

-----------------------------------------------------------------------------
(* The rules of build(), by exact name *)

lib_suffix(sys) ==
    CASE sys = "Windows" -> "dll"
      [] sys = "Linux"   -> "so"
      [] sys = "Darwin"  -> "dylib"
      [] OTHER           -> ""

\* The exclusion table with one entry lost.
IsExcluded_OdinLost(name) ==
    name \in { "tree-sitter-adl", "tree-sitter-angular", "tree-sitter-glimmer" }

\* Prep phase: the projects that are skipped.
IsExcluded(name) ==
    name \in { "tree-sitter-adl", "tree-sitter-angular",
               "tree-sitter-glimmer", "tree-sitter-odin" }

\* The relocation of tree-sitter-php lost.
Relocate_PhpLost(g, name) ==
    CASE name = "tree-sitter-rcl" -> joinpath(joinpath(g, <<"grammar">>), <<"tree-sitter-rcl">>)
      [] OTHER                    -> g

\* Prep phase: the projects whose sources lie in a subdirectory.
Relocate(g, name) ==
    CASE name = "tree-sitter-rcl" -> joinpath(joinpath(g, <<"grammar">>), <<"tree-sitter-rcl">>)
      [] name = "tree-sitter-php" -> joinpath(g, <<"php">>)
      [] OTHER                    -> g

\* The default case calling ts_build with npm=True.
DefaultPlan_WithNpm ==
    [multi |-> FALSE, dirs |-> << <<>> >>, generate |-> TRUE, npm |-> TRUE]

\* Build phase, case _: one ts_build of the project's own path.
DefaultPlan ==
    [multi |-> FALSE, dirs |-> << <<>> >>, generate |-> TRUE, npm |-> FALSE]

\* _build_multi leaving its loop at the first unit that fails.
AfterUnit_StopAtFailure(multi, ok, more) ==
    IF multi THEN (IF ok /\ more THEN "next_unit" ELSE "license")
    ELSE IF ok THEN "license"
    ELSE "continue"

\* What follows the return of a ts_build: inside _build_multi the `continue`
\* goes to the next subdir whatever was returned and the license phase
\* follows the last one; elsewhere it goes to the next entry of the batch.
AfterUnit(multi, ok, more) ==
    IF multi THEN (IF more THEN "next_unit" ELSE "license")
    ELSE IF ok THEN "license"
    ELSE "continue"

\* _build_multi with generate defaulting to True.
MultiPlan_Generating(dirs, npm) ==
    [multi |-> TRUE, dirs |-> dirs, generate |-> TRUE, npm |-> npm]

\* _build_multi(dirs, generate=False, npm=False)
MultiPlan(dirs, npm) ==
    [multi |-> TRUE, dirs |-> dirs, generate |-> FALSE, npm |-> npm]

\* Build phase: which ts_build calls are made for a project.  dirs are the
\* subdirectories joined to the source path (<<>>: the source path itself).
BuildPlan(name) ==
    CASE name = "tree-sitter-astro" ->
           [multi |-> FALSE, dirs |-> << <<>> >>, generate |-> TRUE, npm |-> TRUE]
      [] name = "tree-sitter-cpp" ->
           [multi |-> FALSE, dirs |-> << <<>> >>, generate |-> TRUE, npm |-> TRUE]
      [] name = "tree-sitter-c-sharp" ->
           [multi |-> FALSE, dirs |-> << <<>> >>, generate |-> FALSE, npm |-> FALSE]
      [] name = "tree-sitter-glsl" ->
           [multi |-> FALSE, dirs |-> << <<>> >>, generate |-> TRUE, npm |-> TRUE]
      [] name = "tree-sitter-markdown" ->
           MultiPlan(<< <<"tree-sitter-markdown">>, <<"tree-sitter-markdown-inline">> >>, FALSE)
      [] name = "tree-sitter-ocaml" ->
           MultiPlan(<< <<"grammars", "ocaml">>, <<"grammars", "interface">>,
                        <<"grammars", "type">> >>, FALSE)
      [] name = "tree-sitter-typescript" ->
           MultiPlan(<< <<"tsx">>, <<"typescript">> >>, TRUE)
      [] name = "tree-sitter-wasm" ->
           MultiPlan(<< <<"wast">>, <<"wat">> >>, FALSE)
      [] OTHER -> DefaultPlan

\* run() with only a positive status taken for a failure.
RunReturns_PositiveOnly(returncode) == ~(returncode > 0)

\* run(): False when the exit status is not 0, True otherwise.
RunReturns(returncode) == ~(returncode # 0)

\* ts_build with generate tried before npm install.
Steps_GenerateFirst(generate, npm) ==
    (IF generate = TRUE THEN <<"generate">> ELSE <<>>)
      \o (IF npm = TRUE THEN <<"npm">> ELSE <<>>)
      \o <<"compile">>

\* ts_build: the steps of one unit, in the order they are tried.
Steps(generate, npm) ==
    (IF npm = TRUE THEN <<"npm">> ELSE <<>>)
      \o (IF generate = TRUE THEN <<"generate">> ELSE <<>>)
      \o <<"compile">>

\* The output directory, cwd/output.
output == joinpath(cwd, <<"output">>)

\* The library named after the directory that is built, not after the project.
LibFile_FromBuildDir(unitdir, name, sys) ==
    "lib" \o PathName(unitdir) \o "." \o lib_suffix(sys)

\* The file name the compile step is told to write.
LibFile(unitdir, name, sys) == "lib" \o name \o "." \o lib_suffix(sys)

\* The command of a step, the directory it runs in and the file it is told
\* to write (<<>>: none).
Command(step, unitdir, name, sys) ==
    CASE step = "npm" ->
           [argv |-> <<"npm", "install">>, workdir |-> resolve(unitdir),
            target |-> <<>>]
      [] step = "generate" ->
           [argv |-> <<"tree-sitter", "generate", "--no-bindings">>,
            workdir |-> resolve(unitdir), target |-> <<>>]
      [] OTHER ->
           LET lib == joinpath(output, <<LibFile(unitdir, name, sys)>>)
           IN  [argv |-> <<"tree-sitter", "build", "--output", PathStr(lib), ".">>,
                workdir |-> unitdir, target |-> lib]

\* The explicit license paths forgotten: every project takes the default lookup.
HasLicenseOverride_None(name) == FALSE

\* License phase: the projects with an explicit license path.
HasLicenseOverride(name) ==
    name \in { "tree-sitter-dhall", "tree-sitter-rcl",
               "tree-sitter-ron", "tree-sitter-slint" }

LicenseOverride(g, name) ==
    CASE name = "tree-sitter-dhall" -> joinpath(g, <<"LICENSE">>)
      [] name = "tree-sitter-rcl"   -> resolve(joinpath(g, <<"..", "..", "LICENSE">>))
      [] name = "tree-sitter-ron"   -> joinpath(g, <<"LICENSE-APACHE">>)
      [] OTHER                      -> joinpath(g, <<"LICENSES", "MIT.txt">>)

\* grammar.glob(pattern + "*") over the files of the source path.
Glob(files, prefix) == { f \in files : StartsWith(f, prefix) }

\* The two iterators swapped: next(licg, next(copg, "")).
FirstLicense_LicenseFirst(copg, licg) ==
    IF licg # {} THEN licg
    ELSE IF copg # {} THEN copg
    ELSE { "" }

\* next(copg, next(licg, "")): what the two iterators may yield first.
FirstLicense(copg, licg) ==
    IF copg # {} THEN copg
    ELSE IF licg # {} THEN licg
    ELSE { "" }

\* The guard of the copy lost: copy() is called with whatever was chosen.
ShouldCopy_Always(lic, files) == TRUE

\* lic != "" and lic.exists()
ShouldCopy(lic, files) == lic # "" /\ lic \in files

LicenseSuffix(lic) == IF StartsWith(lic, "COPYING") THEN "COPYING" ELSE "LICENSE"

\* The destination names inside the output directory.
LicenseFile(name, suffix) == name \o "." \o suffix

-----------------------------------------------------------------------------
(* The state *)

\* os.getenv of a variable that is not set.
None == "None"

\* build(): the line that opens a project's block.
GroupHeader(env, name) ==
    IF env # None THEN << "::group::Build " \o name >> ELSE << "---" >>

\* build(): the line that closes a project's block, at the end of the loop body.
GroupFooter(env) == IF env # None THEN << "\n::endgroup::" >> ELSE << >>

\* A file written under a new name when the name is taken.
WriteFile_KeepBoth(dirc, name, content) ==
    LET free == IF name \in DOMAIN dirc THEN name \o ".1" ELSE name
    IN  [n \in DOMAIN dirc \cup {free} |-> IF n = free THEN content ELSE dirc[n]]

\* copy(src, dest) and "tree-sitter build --output dest": the file is
\* created, or overwritten in place.
WriteFile(dirc, name, content) ==
    [n \in DOMAIN dirc \cup {name} |-> IF n = name THEN content ELSE dirc[n]]

VARIABLES
    platform,      \* platform.system()
    arg,           \* the paths given to "build" (<<>>: none)
    dirEntries,    \* the names found in cwd/grammars
    pc,            \* "init", "loop", "build", "license", "done", "raised"
    grammars,      \* the list build() iterates over
    idx,           \* how many entries of it the loop has taken
    grammar,       \* loop variable: the entry, then the source path
    grammar_name,  \* loop variable: the project's name
    plan,          \* the ts_build calls of the current project
    unit,          \* which of them is running
    steps,         \* the steps the running ts_build has yet to take
    outputDir,     \* the names of the files in the output directory
    \* What happened for the current entry (reset when the next one is taken):
    cmds,          \* the commands handed to run(), with their exit status
    unitRes,       \* the value every finished ts_build returned
    written,       \* the files written to the output directory
    files,         \* the files seen in the source path by the license lookup
    lic,           \* the file the license lookup chose ("": none)
    copied,        \* the path handed to copy() (<<>>: none)
    ci,            \* os.getenv("GITHUB_ACTIONS") (None: not set)
    printed,       \* what build() has printed for the entry taken last
    outcome,       \* how far the entry got
    \* The output directory over two runs of build():
    contents,      \* what every file of the output directory holds
    mode,          \* "off": one run; "record": the first of two; "replay": the second
    tape,          \* the outcomes of the first run the second has yet to meet
    firstRun,      \* the output directory as the first run left it
    \* One call of run(), step by step:
    runpc,         \* "idle", "call", "stdout", "stderr", "status", "returned", "raised"
    proc,          \* what subprocess.run returned
    logged,        \* how many lines of the current stream have been logged
    log,           \* the records handed to logging
    result         \* what run() returned ("none": nothing yet)

buildVars == << platform, arg, dirEntries, pc, grammars, idx, grammar,
                grammar_name, plan, unit, steps, outputDir, cmds, unitRes,
                written, files, lic, copied, ci, printed, outcome,
                contents, mode, tape, firstRun >>

twiceVars == << contents, mode, tape, firstRun >>

runVars == << runpc, proc, logged, log, result >>

vars == << platform, arg, dirEntries, pc, grammars, idx, grammar, grammar_name,
           plan, unit, steps, outputDir, cmds, unitRes, written, files, lic,
           copied, ci, printed, outcome, contents, mode, tape, firstRun,
           runpc, proc, logged, log, result >>

\* An output directory without files.
EmptyDir == [n \in {} |-> <<>>]

NoProc == [returncode |-> 0, stdout |-> <<>>, stderr |-> <<>>]

\* No call of run() is being followed.
RunIdle ==
    /\ runpc = "idle"
    /\ proc = NoProc
    /\ logged = 0
    /\ log = <<>>
    /\ result = "none"

NoPlan == [multi |-> FALSE, dirs |-> <<>>, generate |-> FALSE, npm |-> FALSE]

\* "build <path> <path> ..." names directories below cwd/grammars.
ArgPath(n) == <<"grammars", n>>

Start ==
    /\ platform \in Platforms
    /\ arg \in {<<>>} \cup SeqsUpTo({ArgPath(n) : n \in ArgNames}, MaxBatch)
                      \cup {<<ArgPath(n)>> : n \in EntryNames}
    /\ dirEntries \in IF arg = <<>>
                      THEN SetsUpTo(CoreNames, MaxBatch) \cup {{n} : n \in EntryNames}
                      ELSE {{PathName(arg[i]) : i \in 1..Len(arg)}}
    /\ pc = "init"
    /\ grammars = <<>>
    /\ idx = 0
    /\ grammar = <<>>
    /\ grammar_name = ""
    /\ plan = NoPlan
    /\ unit = 0
    /\ steps = <<>>
    /\ outputDir = {}
    /\ cmds = <<>>
    /\ unitRes = <<>>
    /\ written = {}
    /\ files = {}
    /\ lic = ""
    /\ copied = <<>>
    /\ ci \in {None, "true"}
    /\ printed = <<>>
    /\ outcome = "none"
    /\ contents = EmptyDir
    /\ tape = <<>>
    /\ firstRun = EmptyDir
    /\ RunIdle

\* One run of build().
Init == Start /\ mode = "off"

\* Two runs of build() that meet the same outcome of every command and the
\* same files in every source path.  Every entry of EntryNames is run twice
\* as a batch of its own; the batches of several entries are those over
\* TwiceNames, whose runs have few outcomes to remember.
TwiceNames == { "README.md", "tree-sitter-adl", "tree-sitter-rcl" }

TwiceInit ==
    /\ Start
    /\ mode = "record"
    /\ (Len(arg) > 1 \/ Cardinality(dirEntries) > 1) => dirEntries \subseteq TwiceNames

\* The environment's choice: free in a first run, the recorded one in a second.
Replayed(choice) == mode = "replay" => (tape # <<>> /\ Head(tape) = choice)

Recorded(choice) ==
    CASE mode = "record" -> Append(tape, choice)
      [] mode = "replay" -> Tail(tape)
      [] OTHER           -> tape

\* Path.iterdir() of cwd/grammars.
iterdir == { joinpath(joinpath(cwd, <<"grammars">>), <<n>>) : n \in dirEntries }

\* do_build / build: the list to walk.
DoBuild ==
    /\ UNCHANGED runVars
    /\ UNCHANGED twiceVars
    /\ pc = "init"
    /\ grammars' = IF Len(arg) = 0 THEN sorted(iterdir) ELSE arg
    /\ pc' = "loop"
    /\ UNCHANGED << platform, arg, dirEntries, idx, grammar, grammar_name, plan,
                    unit, steps, outputDir, cmds, unitRes, written, files, lic,
                    copied, ci, printed, outcome >>

\* The loop takes its next entry: nothing has happened for it yet.
TakeEntry ==
    /\ pc = "loop"
    /\ idx < Len(grammars)
    /\ idx' = idx + 1
    /\ cmds' = <<>>
    /\ unitRes' = <<>>
    /\ written' = {}
    /\ files' = {}
    /\ lic' = ""
    /\ copied' = <<>>

\* for grammar in grammars: not a directory.
SkipPath ==
    /\ UNCHANGED runVars
    /\ UNCHANGED twiceVars
    /\ TakeEntry
    /\ ~is_dir(grammars[idx + 1])
    /\ grammar' = grammars[idx + 1]
    /\ outcome' = "not_dir"
    /\ printed' = <<>>
    /\ UNCHANGED << platform, arg, dirEntries, pc, grammars, grammar_name, plan,
                    unit, steps, outputDir, ci >>

\* Prep phase: an excluded project.
SkipExcluded ==
    /\ UNCHANGED runVars
    /\ UNCHANGED twiceVars
    /\ TakeEntry
    /\ is_dir(grammars[idx + 1])
    /\ IsExcluded(PathName(grammars[idx + 1]))
    /\ grammar' = grammars[idx + 1]
    /\ grammar_name' = PathName(grammars[idx + 1])
    /\ outcome' = "excluded"
    /\ printed' = GroupHeader(ci, PathName(grammars[idx + 1]))
    /\ UNCHANGED << platform, arg, dirEntries, pc, grammars, plan, unit, steps,
                    outputDir, ci >>

\* Prep phase of any other project, up to its first ts_build call.
BeginBuild ==
    /\ UNCHANGED runVars
    /\ UNCHANGED twiceVars
    /\ TakeEntry
    /\ is_dir(grammars[idx + 1])
    /\ ~IsExcluded(PathName(grammars[idx + 1]))
    /\ LET name == PathName(grammars[idx + 1])
           p    == BuildPlan(name)
       IN  /\ grammar_name' = name
           /\ grammar' = Relocate(grammars[idx + 1], name)
           /\ plan' = p
           /\ unit' = 1
           /\ steps' = Steps(p.generate, p.npm)
    /\ pc' = "build"
    /\ outcome' = "building"
    /\ printed' = GroupHeader(ci, PathName(grammars[idx + 1]))
    /\ UNCHANGED << platform, arg, dirEntries, grammars, outputDir, ci >>

\* One run() call of the running ts_build, and whatever follows it up to the
\* next run() call: the next step, the next unit, the license phase or the
\* next entry.
RunStep ==
    /\ UNCHANGED runVars
    /\ UNCHANGED << mode, firstRun >>
    /\ pc = "build"
    /\ \E rc \in {0, 1}, lost \in BOOLEAN :
         LET step    == Head(steps)
             unitdir == joinpath(grammar, plan.dirs[unit])
             c       == Command(step, unitdir, grammar_name, platform)
             ok      == RunReturns(rc)
             \* A command that fails leaves no library; one that succeeds
             \* leaves the file it was told to write, unless the tool lost it.
             wrote   == ok /\ c.target # <<>> /\ ~lost
             new     == IF wrote THEN {PathName(c.target)} ELSE {}
         IN  /\ lost => (ok /\ c.target # <<>>)
             /\ Replayed([rc |-> rc, lost |-> lost])
             /\ tape' = Recorded([rc |-> rc, lost |-> lost])
             /\ cmds' = Append(cmds, [unit |-> unit, step |-> step, argv |-> c.argv,
                                      workdir |-> c.workdir, rc |-> rc])
             /\ contents' = IF wrote
                            THEN WriteFile(contents, PathName(c.target), resolve(unitdir))
                            ELSE contents
             /\ outputDir' = DOMAIN contents'
             /\ written' = written \cup new
             /\ IF ok /\ Len(steps) > 1
                THEN \* the next step of the same ts_build
                     /\ steps' = Tail(steps)
                     /\ UNCHANGED << pc, unit, unitRes, outcome >>
                ELSE \* ts_build returns
                     /\ unitRes' = Append(unitRes, [ok |-> ok, lib |-> wrote])
                     /\ IF AfterUnit(plan.multi, ok, unit < Len(plan.dirs)) = "next_unit"
                        THEN \* _build_multi: the next subdir
                             /\ unit' = unit + 1
                             /\ steps' = Steps(plan.generate, plan.npm)
                             /\ UNCHANGED << pc, outcome >>
                        ELSE IF AfterUnit(plan.multi, ok, unit < Len(plan.dirs)) = "license"
                        THEN /\ pc' = "license"
                             /\ UNCHANGED << unit, steps, outcome >>
                        ELSE \* if ts_build(...) is False: continue
                             /\ pc' = "loop"
                             /\ outcome' = "unit_failed"
                             /\ UNCHANGED << unit, steps >>
    /\ UNCHANGED << platform, arg, dirEntries, grammars, idx, grammar,
                    grammar_name, plan, files, lic, copied, ci, printed >>

\* License phase of a project with an explicit license path: copy() raises
\* when the path does not exist, and nothing catches it.
CopyOverride ==
    /\ UNCHANGED runVars
    /\ UNCHANGED << mode, firstRun >>
    /\ pc = "license"
    /\ HasLicenseOverride(grammar_name)
    /\ \E exists \in BOOLEAN :
         LET src  == LicenseOverride(grammar, grammar_name)
             dest == LicenseFile(grammar_name, "LICENSE")
         IN  /\ Replayed([exists |-> exists])
             /\ tape' = Recorded([exists |-> exists])
             /\ lic' = PathStr(src)
             /\ copied' = src
             /\ IF exists
                THEN /\ contents' = WriteFile(contents, dest, src)
                     /\ outputDir' = DOMAIN contents'
                     /\ written' = written \cup {dest}
                     /\ printed' = printed \o GroupFooter(ci)
                     /\ pc' = "loop"
                     /\ outcome' = "licensed"
                ELSE /\ pc' = "raised"
                     /\ outcome' = "copy_raised"
                     /\ UNCHANGED << outputDir, contents, written, printed >>
    /\ UNCHANGED << platform, arg, dirEntries, grammars, idx, grammar,
                    grammar_name, plan, unit, steps, cmds, unitRes, files, ci >>

\* License phase, case _: the first COPYING* file, else the first LICENSE*
\* file of the source path.
CopyDefault ==
    /\ UNCHANGED runVars
    /\ UNCHANGED << mode, firstRun >>
    /\ pc = "license"
    /\ ~HasLicenseOverride(grammar_name)
    /\ \E ls \in SetsUpTo(SourceFiles, MaxFiles) :
       \E l \in FirstLicense(Glob(ls, "COPYING"), Glob(ls, "LICENSE")) :
         LET dest == LicenseFile(grammar_name, LicenseSuffix(l))
         IN  /\ Replayed([ls |-> ls, lic |-> l])
             /\ tape' = Recorded([ls |-> ls, lic |-> l])
             /\ files' = ls
             /\ lic' = l
             /\ copied' = IF ShouldCopy(l, ls) THEN joinpath(grammar, <<l>>) ELSE <<>>
             /\ IF ShouldCopy(l, ls)
                THEN IF l \in ls
                     THEN /\ contents' = WriteFile(contents, dest, joinpath(grammar, <<l>>))
                          /\ outputDir' = DOMAIN contents'
                          /\ written' = written \cup {dest}
                          /\ printed' = printed \o GroupFooter(ci)
                          /\ pc' = "loop"
                          /\ outcome' = "licensed"
                     ELSE /\ pc' = "raised"
                          /\ outcome' = "copy_raised"
                          /\ UNCHANGED << outputDir, contents, written, printed >>
                ELSE \* No licence found!!!
                     /\ printed' = printed \o GroupFooter(ci)
                     /\ pc' = "loop"
                     /\ outcome' = "no_license"
                     /\ UNCHANGED << outputDir, contents, written >>
    /\ UNCHANGED << platform, arg, dirEntries, grammars, idx, grammar,
                    grammar_name, plan, unit, steps, cmds, unitRes, ci >>

\* The list is exhausted: build() returns, and with it go its locals.
Return ==
    /\ UNCHANGED runVars
    /\ UNCHANGED twiceVars
    /\ pc = "loop"
    /\ idx = Len(grammars)
    /\ pc' = "done"
    /\ grammar' = <<>>
    /\ grammar_name' = ""
    /\ plan' = NoPlan
    /\ unit' = 0
    /\ steps' = <<>>
    /\ cmds' = <<>>
    /\ unitRes' = <<>>
    /\ written' = {}
    /\ files' = {}
    /\ lic' = ""
    /\ copied' = <<>>
    /\ printed' = <<>>
    /\ outcome' = "none"
    /\ UNCHANGED << platform, arg, dirEntries, grammars, idx, outputDir, ci >>

Next ==
    \/ DoBuild
    \/ SkipPath
    \/ SkipExcluded
    \/ BeginBuild
    \/ RunStep
    \/ CopyOverride
    \/ CopyDefault
    \/ Return

Spec == Init /\ [][Next]_vars

\* "build" is given again once the first run is over: the output directory
\* is as the first run left it, everything else starts afresh.
SecondRun ==
    /\ UNCHANGED runVars
    /\ mode = "record"
    /\ pc \in {"done", "raised"}
    /\ mode' = "replay"
    /\ firstRun' = contents
    /\ pc' = "init"
    /\ grammars' = <<>>
    /\ idx' = 0
    /\ grammar' = <<>>
    /\ grammar_name' = ""
    /\ plan' = NoPlan
    /\ unit' = 0
    /\ steps' = <<>>
    /\ cmds' = <<>>
    /\ unitRes' = <<>>
    /\ written' = {}
    /\ files' = {}
    /\ lic' = ""
    /\ copied' = <<>>
    /\ printed' = <<>>
    /\ outcome' = "none"
    /\ UNCHANGED << platform, arg, dirEntries, outputDir, ci, contents, tape >>

TwiceNext ==
    \/ Next
    \/ SecondRun

TwiceSpec == TwiceInit /\ [][TwiceNext]_vars

\* build() is one sequential program: it takes its next step whenever it has one.
FairSpec == Spec /\ WF_vars(Next)

-----------------------------------------------------------------------------
(* run(), one call followed line by line *)

\* The bytes a command may print: a line feed, a letter, and a byte that is
\* no UTF-8.
Bytes == {10, 97, 255}

\* The exit status of a command: killed by a signal, success, failure.
ExitCodes == {-9, 0, 1}

\* The index of the first line feed of b (0: none).
FirstBreak(b) ==
    IF \E k \in 1..Len(b) : b[k] = 10
    THEN CHOOSE k \in 1..Len(b) : b[k] = 10 /\ \A j \in 1..(k - 1) : b[j] # 10
    ELSE 0

\* bytes.splitlines(): the lines without their line feed; a final line feed
\* opens no further line.
RECURSIVE splitlines(_)
splitlines(b) ==
    IF b = <<>> THEN <<>>
    ELSE IF FirstBreak(b) = 0 THEN <<b>>
    ELSE <<SubSeq(b, 1, FirstBreak(b) - 1)>>
             \o splitlines(SubSeq(b, FirstBreak(b) + 1, Len(b)))

\* bytes.decode() raises UnicodeDecodeError on a byte that is no UTF-8.
Decodable(line) == \A k \in 1..Len(line) : line[k] < 128

RECURSIVE decode(_)
decode(line) ==
    IF line = <<>> THEN ""
    ELSE (IF Head(line) = 97 THEN "a" ELSE "?") \o decode(Tail(line))

\* The err argument of run().
ErrText == "Failed to execute"

RunInit ==
    /\ platform = "Linux"
    /\ arg = <<>>
    /\ dirEntries = {}
    /\ pc = "idle"
    /\ grammars = <<>>
    /\ idx = 0
    /\ grammar = <<>>
    /\ grammar_name = ""
    /\ plan = NoPlan
    /\ unit = 0
    /\ steps = <<>>
    /\ outputDir = {}
    /\ cmds = <<>>
    /\ unitRes = <<>>
    /\ written = {}
    /\ files = {}
    /\ lic = ""
    /\ copied = <<>>
    /\ ci = None
    /\ printed = <<>>
    /\ outcome = "none"
    /\ contents = EmptyDir
    /\ mode = "off"
    /\ tape = <<>>
    /\ firstRun = EmptyDir
    /\ runpc = "call"
    /\ proc = NoProc
    /\ logged = 0
    /\ log = <<>>
    /\ result = "none"

\* logger.debug twice, then subprocess.run(check=False): the command runs to
\* its end, whatever its exit status.
SubprocessRun ==
    /\ runpc = "call"
    /\ \E rc \in ExitCodes, out \in SeqsUpTo(Bytes, MaxOutput),
          err \in SeqsUpTo(Bytes, MaxOutput) :
         proc' = [returncode |-> rc, stdout |-> out, stderr |-> err]
    /\ log' = << [level |-> "debug", msg |-> "workdir"],
                 [level |-> "debug", msg |-> "command"] >>
    /\ logged' = 0
    /\ runpc' = "stdout"
    /\ UNCHANGED result
    /\ UNCHANGED buildVars

\* One turn of a "for line in ...splitlines()" loop over the stream b.
LogLines(b, after) ==
    IF logged < Len(splitlines(b))
    THEN IF Decodable(splitlines(b)[logged + 1])
         THEN /\ log' = Append(log, [level |-> "info",
                                     msg |-> decode(splitlines(b)[logged + 1])])
              /\ logged' = logged + 1
              /\ UNCHANGED << runpc, result >>
         ELSE /\ runpc' = "raised"
              /\ result' = "UnicodeDecodeError"
              /\ UNCHANGED << log, logged >>
    ELSE /\ runpc' = after
         /\ logged' = 0
         /\ UNCHANGED << log, result >>

\* for line in proc.stdout.splitlines(): logging.info(line.decode())
LogStdout ==
    /\ runpc = "stdout"
    /\ LogLines(proc.stdout, "stderr")
    /\ UNCHANGED proc
    /\ UNCHANGED buildVars

\* for line in proc.stderr.splitlines(): logging.info(line.decode())
LogStderr ==
    /\ runpc = "stderr"
    /\ LogLines(proc.stderr, "status")
    /\ UNCHANGED proc
    /\ UNCHANGED buildVars

\* if proc.returncode != 0: logging.error(err); return False / return True
RunReturn ==
    /\ runpc = "status"
    /\ IF RunReturns(proc.returncode)
       THEN /\ result' = "True"
            /\ UNCHANGED log
       ELSE /\ log' = Append(log, [level |-> "error", msg |-> ErrText])
            /\ result' = "False"
    /\ runpc' = "returned"
    /\ UNCHANGED << proc, logged >>
    /\ UNCHANGED buildVars

RunNext ==
    \/ SubprocessRun
    \/ LogStdout
    \/ LogStderr
    \/ RunReturn

RunSpec == RunInit /\ [][RunNext]_vars

-----------------------------------------------------------------------------
(* Properties *)

\* The entry the loop took last, and its directory name.
Entry == grammars[idx]
EntryName == PathName(grammars[idx])

\* The loop is through with the entry it took last.
EntryEnded == idx >= 1 /\ pc \in {"loop", "done", "raised"}

\* The files a project named n may own in the output directory.
Libraries(S, n) == { f \in S : StartsWith(f, "lib" \o n \o ".") }
Licenses(S, n) == { f \in S : f = n \o ".LICENSE" \/ f = n \o ".COPYING" }
OwnFiles(n) ==
    { "lib" \o n \o "." \o lib_suffix(platform), n \o ".LICENSE", n \o ".COPYING" }

\* The tables of make.py, as the claims name them.
ExclusionTable ==
    { "tree-sitter-adl", "tree-sitter-angular", "tree-sitter-glimmer",
      "tree-sitter-odin" }
RelocationTable == { "tree-sitter-rcl", "tree-sitter-php" }
BuildCaseTable ==
    { "tree-sitter-astro", "tree-sitter-cpp", "tree-sitter-c-sharp",
      "tree-sitter-glsl", "tree-sitter-markdown", "tree-sitter-ocaml",
      "tree-sitter-typescript", "tree-sitter-wasm" }
LicenseOverrideTable ==
    { "tree-sitter-dhall", "tree-sitter-rcl", "tree-sitter-ron",
      "tree-sitter-slint" }
TwoUnitProjects ==
    { "tree-sitter-markdown", "tree-sitter-typescript", "tree-sitter-wasm" }

\* The steps of the commands run so far for the entry.
StepsRun == [i \in 1..Len(cmds) |-> cmds[i].step]

IsPrefix(s, t) == Len(s) <= Len(t) /\ s = SubSeq(t, 1, Len(s))

\* C1: when the loop is through with a project, files of it were written to
\* the output directory only if every build unit of the project was built
\* and every one of them succeeded.
C1_ArtifactsOnlyIfAllUnitsBuilt ==
    EntryEnded =>
        (written # {} =>
            /\ Len(unitRes) = Len(plan.dirs)
            /\ \A i \in 1..Len(unitRes) : unitRes[i].ok)

\* C2: whatever the outcome of an entry (not a directory, excluded, a unit
\* failed, license copied, no license found, license path missing), the loop
\* goes on: the run is at the loop head or has returned normally.
C2_EveryOutcomeContinues ==
    outcome \in {"not_dir", "excluded", "unit_failed", "licensed", "no_license",
                 "copy_raised"}
        => pc \in {"loop", "done"}

\* C3: when the loop is through with a project, its library files in the
\* output directory are as many as its units that were built and left their
\* library behind (two for a two-unit project whose units both succeeded),
\* and a two-unit project built and licensed has exactly one license file.
C3_OneLibraryPerBuiltUnit ==
    (EntryEnded /\ outcome \in {"licensed", "no_license"}) =>
        /\ Cardinality(Libraries(written, EntryName))
             = Cardinality({ i \in 1..Len(unitRes) : unitRes[i].ok /\ unitRes[i].lib })
        /\ (EntryName \in TwoUnitProjects /\ outcome = "licensed")
             => Cardinality(Licenses(written, EntryName)) = 1

\* C4: for an excluded project no command is run and no file is written,
\* wherever it stands in the batch, and the output directory never holds a
\* library or license file of an excluded project.
C4_ExcludedNeverBuilt ==
    /\ (idx >= 1 /\ is_dir(Entry) /\ EntryName \in ExclusionTable) =>
           /\ cmds = <<>>
           /\ written = {}
           /\ pc \in {"loop", "done"}
    /\ \A n \in ExclusionTable :
           Libraries(outputDir, n) = {} /\ Licenses(outputDir, n) = {}

C4_Witness ==
    /\ idx = 2
    /\ pc = "loop"
    /\ outcome = "excluded"
    /\ EntryName \in ExclusionTable
    /\ outputDir # {}

\* C5: in the default license lookup, if a COPYING* file lies in the source
\* path one of them is chosen and copied to {name}.COPYING, also when
\* LICENSE* files lie there; if only LICENSE* files lie there one of them is
\* chosen and copied to {name}.LICENSE.
C5_CopyingBeforeLicense ==
    (outcome \in {"licensed", "no_license", "copy_raised"}
       /\ EntryName \notin LicenseOverrideTable) =>
        LET cop  == { f \in files : StartsWith(f, "COPYING") }
            licf == { f \in files : StartsWith(f, "LICENSE") }
        IN  /\ cop # {} =>
                 /\ lic \in cop
                 /\ Licenses(written, EntryName) = { EntryName \o ".COPYING" }
            /\ (cop = {} /\ licf # {}) =>
                 /\ lic \in licf
                 /\ Licenses(written, EntryName) = { EntryName \o ".LICENSE" }

C5_Witness ==
    /\ outcome = "licensed"
    /\ files = { "LICENSE.txt", "COPYING.LESSER" }
    /\ lic = "COPYING.LESSER"
    /\ EntryName \o ".COPYING" \in outputDir

\* C6: a project named in no rule table is built as one unit in its own
\* directory: no npm install, generate first, compile after it, each at most
\* once and in the project's own path, and both of them when the unit was
\* built.
C6_DefaultBuildPlan ==
    (idx >= 1 /\ is_dir(Entry)
       /\ EntryName \notin (ExclusionTable \cup RelocationTable \cup BuildCaseTable)) =>
        /\ IsPrefix(StepsRun, <<"generate", "compile">>)
        /\ \A i \in 1..Len(cmds) :
              /\ cmds[i].unit = 1
              /\ resolve(cmds[i].workdir) = resolve(Entry)
        /\ Len(unitRes) <= 1
        /\ (pc = "build" /\ cmds = <<>>) => Head(steps) = "generate"
        /\ (unitRes # <<>> /\ unitRes[1].ok) =>
              /\ StepsRun = <<"generate", "compile">>
              /\ cmds[1].argv = <<"tree-sitter", "generate", "--no-bindings">>
              /\ SubSeq(cmds[2].argv, 1, 2) = <<"tree-sitter", "build">>

C6_Witness ==
    /\ idx >= 1
    /\ EntryName = "tree-sitter-rust"
    /\ StepsRun = <<"generate", "compile">>
    /\ unitRes = << [ok |-> TRUE, lib |-> TRUE] >>

\* C7: when the default license lookup finds no LICENSE* and no COPYING*
\* file, no license file is written, the libraries the project produced are
\* still in the output directory and the loop goes on.
C7_MissingLicenseOnlyLogged ==
    (outcome \in {"licensed", "no_license", "copy_raised"}
       /\ EntryName \notin LicenseOverrideTable
       /\ \A f \in files : ~StartsWith(f, "LICENSE") /\ ~StartsWith(f, "COPYING")) =>
        /\ outcome = "no_license"
        /\ pc \in {"loop", "done"}
        /\ Licenses(written, EntryName) = {}
        /\ \A i \in 1..Len(unitRes) :
              unitRes[i].lib => Libraries(outputDir, EntryName) # {}

C7_Witness ==
    /\ outcome = "no_license"
    /\ pc = "loop"
    /\ idx < Len(grammars)
    /\ files = { "grammar.js" }
    /\ Libraries(outputDir, EntryName) # {}

\* C8: a unit whose compile command exited with status 0 while its library
\* is not in the output directory counts as failed.
C8_MissingLibraryFailsUnit ==
    \A i \in 1..Len(unitRes) :
        ( /\ \E k \in 1..Len(cmds) :
                cmds[k].unit = i /\ cmds[k].step = "compile" /\ cmds[k].rc = 0
          /\ Libraries(outputDir, EntryName) = {} )
        => ~unitRes[i].ok

\* C9 as claimed: of any two entries taken in a run, the smaller is taken
\* first, also when the paths were given on the command line.
C9_AlwaysLexicographic ==
    \A i, j \in 1..idx :
        (i < j /\ is_dir(grammars[i]) /\ is_dir(grammars[j]))
            => ~PathLess(grammars[j], grammars[i])

\* C9: with no path given the entries of the grammars directory are taken
\* in strictly ascending order and they are all the entries; with paths
\* given they are taken in the order given.
C9_OrderOfEntries ==
    pc # "init" =>
        /\ Len(arg) = 0 =>
              /\ \A i, j \in 1..Len(grammars) :
                    i < j => PathLess(grammars[i], grammars[j])
              /\ { PathName(grammars[i]) : i \in 1..Len(grammars) } = dirEntries
        /\ Len(arg) > 0 =>
              /\ Len(grammars) = Len(arg)
              /\ \A i \in 1..Len(arg) : grammars[i] = arg[i]

C9_Witness ==
    /\ Len(arg) = 0
    /\ idx = 2
    /\ pc = "done"

\* C10: every file written while an entry is processed is named after the
\* entry's own directory name, and every file of the output directory is
\* named after an entry the loop has taken.
C10_FilesNamedAfterOwnProject ==
    /\ idx >= 1 => written \subseteq OwnFiles(EntryName)
    /\ \A f \in outputDir : \E i \in 1..idx : f \in OwnFiles(PathName(grammars[i]))

C10_Witness ==
    /\ idx = 2
    /\ EntryName \in RelocationTable
    /\ Cardinality(written) = 2
    /\ outputDir # written

\* The commands run so far for unit i of the entry.
UnitCmds(i) == SelectSeq(cmds, LAMBDA c : c.unit = i)

StepRank(step) ==
    CASE step = "npm" -> 1 [] step = "generate" -> 2 [] OTHER -> 3

\* C13: within one unit the commands run in the order npm install, generate,
\* compile, npm install only when npm is set and generate only when generate
\* is set; a command that exits non-zero is the last of its unit and makes
\* ts_build return False; ts_build returns True only when every step it was
\* to take ran, the compile step last, and all exited with 0.
C13_StepsInOrderFailFast ==
    (idx >= 1 /\ pc \in {"build", "license", "loop", "raised"}) =>
        \A i \in 1..Len(plan.dirs) :
            LET cs == UnitCmds(i)
            IN  /\ \A k \in 1..Len(cs) - 1 :
                      /\ StepRank(cs[k].step) < StepRank(cs[k + 1].step)
                      /\ cs[k].rc = 0
                /\ \A k \in 1..Len(cs) :
                      /\ cs[k].step = "npm" => plan.npm
                      /\ cs[k].step = "generate" => plan.generate
                /\ i <= Len(unitRes) =>
                      /\ cs # <<>>
                      /\ unitRes[i].ok <=> /\ cs[Len(cs)].step = "compile"
                                           /\ cs[Len(cs)].rc = 0
                      /\ unitRes[i].ok =>
                            Len(cs) = 1 + (IF plan.npm THEN 1 ELSE 0)
                                        + (IF plan.generate THEN 1 ELSE 0)

C13_Witness ==
    /\ idx >= 1
    /\ EntryName = "tree-sitter-astro"
    /\ StepsRun = <<"npm", "generate", "compile">>
    /\ unitRes = << [ok |-> FALSE, lib |-> FALSE] >>
    /\ pc = "loop"

\* The subdirectories _build_multi is called with, as the claims name them.
UnitDirsOf(n) ==
    CASE n = "tree-sitter-markdown" ->
           << <<"tree-sitter-markdown">>, <<"tree-sitter-markdown-inline">> >>
      [] n = "tree-sitter-ocaml" ->
           << <<"grammars", "ocaml">>, <<"grammars", "interface">>,
              <<"grammars", "type">> >>
      [] n = "tree-sitter-typescript" -> << <<"tsx">>, <<"typescript">> >>
      [] n = "tree-sitter-wasm" -> << <<"wast">>, <<"wat">> >>
      [] OTHER -> << <<>> >>

MultiUnitProjects ==
    { "tree-sitter-markdown", "tree-sitter-ocaml", "tree-sitter-typescript",
      "tree-sitter-wasm" }

\* C14: in a multi-unit project every listed unit is attempted once, in the
\* order of the list and in its own subdirectory, whatever the earlier units
\* returned: the project never leaves the build phase before the last unit.
C14_EveryUnitAttempted ==
    (idx >= 1 /\ pc \in {"build", "license", "loop", "raised"}
       /\ EntryName \in MultiUnitProjects) =>
        LET dirs == UnitDirsOf(EntryName)
        IN  /\ outcome # "unit_failed"
            /\ \A k \in 1..Len(cmds) :
                  /\ cmds[k].unit \in 1..Len(dirs)
                  /\ resolve(cmds[k].workdir) = resolve(Entry \o dirs[cmds[k].unit])
                  /\ k > 1 => cmds[k - 1].unit <= cmds[k].unit
            /\ Len(unitRes) <= Len(dirs)
            /\ \A i \in 1..Len(unitRes) : UnitCmds(i) # <<>>
            /\ pc # "build" => Len(unitRes) = Len(dirs)

C14_Witness ==
    /\ idx >= 1
    /\ EntryName = "tree-sitter-ocaml"
    /\ pc = "license"
    /\ ~unitRes[1].ok
    /\ unitRes[2].ok
    /\ ~unitRes[3].ok

\* The step flags of make.py, as the claims name them.
NpmTable ==
    { "tree-sitter-astro", "tree-sitter-cpp", "tree-sitter-glsl",
      "tree-sitter-typescript" }
GenerateSkipTable ==
    { "tree-sitter-c-sharp", "tree-sitter-markdown", "tree-sitter-ocaml",
      "tree-sitter-typescript", "tree-sitter-wasm" }

ExpectedSteps(n) ==
    (IF n \in NpmTable THEN <<"npm">> ELSE <<>>)
      \o (IF n \in GenerateSkipTable THEN <<>> ELSE <<"generate">>)
      \o <<"compile">>

\* C15: the steps of every unit follow the rule of the project's own name:
\* npm install first for astro, cpp, glsl and the units of typescript and for
\* no other project, no generate for c-sharp and the multi-unit projects,
\* generate for every other project, at every position of the batch.
C15_StepFlagsByName ==
    (idx >= 1 /\ pc \in {"build", "license", "loop", "raised"} /\ is_dir(Entry)
       /\ EntryName \notin ExclusionTable) =>
        /\ pc = "build" =>
              [k \in 1..Len(UnitCmds(unit)) |-> UnitCmds(unit)[k].step] \o steps
                  = ExpectedSteps(EntryName)
        /\ \A i \in 1..Len(UnitDirsOf(EntryName)) :
              LET ss == [k \in 1..Len(UnitCmds(i)) |-> UnitCmds(i)[k].step]
              IN  /\ IsPrefix(ss, ExpectedSteps(EntryName))
                  /\ (i <= Len(unitRes) /\ unitRes[i].ok)
                        => ss = ExpectedSteps(EntryName)

C15_Witness ==
    /\ idx >= 1
    /\ EntryName = "tree-sitter-typescript"
    /\ StepsRun = <<"npm", "compile", "npm", "compile">>
    /\ pc = "license"

\* The explicit license paths of make.py below the project directory, as
\* the claims name them.
OverridePathOf(n) ==
    CASE n = "tree-sitter-dhall" -> <<"LICENSE">>
      [] n = "tree-sitter-rcl"   -> <<"LICENSE">>
      [] n = "tree-sitter-ron"   -> <<"LICENSE-APACHE">>
      [] OTHER                   -> <<"LICENSES", "MIT.txt">>

\* The subdirectory a project's sources are redirected to (<<>>: none).
RelocationOf(n) ==
    CASE n = "tree-sitter-rcl" -> <<"grammar", "tree-sitter-rcl">>
      [] n = "tree-sitter-php" -> <<"php">>
      [] OTHER                 -> <<>>

\* C16: at most one license file is written for a project, only when all its
\* ts_build calls have returned and never followed by another command of the
\* project; a project with an explicit license path copies exactly that path
\* to {name}.LICENSE without looking at the source path, any other project
\* copies the one file its lookup chose.
C16_OneLicenseAfterBuild ==
    (idx >= 1 /\ pc \in {"build", "license", "loop", "raised"}) =>
        /\ Cardinality(Licenses(written, EntryName)) <= 1
        /\ pc \in {"build", "license"} =>
              Licenses(written, EntryName) = {} /\ copied = <<>>
        /\ copied # <<>> => Len(unitRes) = Len(plan.dirs)
        /\ Licenses(written, EntryName) # {} => outcome = "licensed"
        /\ outcome = "licensed" =>
              IF EntryName \in LicenseOverrideTable
              THEN /\ files = {}
                   /\ resolve(copied) = resolve(Entry) \o OverridePathOf(EntryName)
                   /\ Licenses(written, EntryName) = { EntryName \o ".LICENSE" }
              ELSE /\ lic \in files
                   /\ PathName(copied) = lic
                   /\ Cardinality(Licenses(written, EntryName)) = 1

C16_Witness ==
    /\ idx = 2
    /\ EntryName = "tree-sitter-rcl"
    /\ outcome = "licensed"
    /\ written = { "libtree-sitter-rcl.so", "tree-sitter-rcl.LICENSE" }

\* C17: the sources of tree-sitter-rcl are taken from grammar/tree-sitter-rcl
\* and those of tree-sitter-php from php below the project directory, those
\* of every other project from the project directory itself: every command
\* runs there (or in the unit's subdirectory of it), the license is looked up
\* there, the explicit license path of tree-sitter-rcl is LICENSE in the
\* project directory, and the files written keep the project's name.
C17_RelocatedSourcePath ==
    (idx >= 1 /\ pc \in {"build", "license", "loop", "raised"} /\ is_dir(Entry)) =>
        LET src == resolve(Entry) \o RelocationOf(EntryName)
        IN  /\ resolve(grammar) = src
            /\ \A k \in 1..Len(cmds) :
                  resolve(cmds[k].workdir) = src \o UnitDirsOf(EntryName)[cmds[k].unit]
            /\ (copied # <<>> /\ EntryName \notin LicenseOverrideTable) =>
                  resolve(copied) = Append(src, lic)
            /\ (copied # <<>> /\ EntryName = "tree-sitter-rcl") =>
                  copied = Append(resolve(Entry), "LICENSE")
            /\ written \subseteq OwnFiles(EntryName)

C17_Witness ==
    /\ idx = 2
    /\ EntryName = "tree-sitter-php"
    /\ outcome = "licensed"
    /\ Len(cmds) = 2
    /\ Cardinality(written) = 2

\* C18: in CI mode every project whose '::group::Build {name}' header was
\* printed has its '::endgroup::' marker printed by the time the loop is
\* through with it, whatever its outcome.
C18_EveryGroupClosed ==
    (ci # None /\ idx >= 1 /\ pc \in {"loop", "raised"} /\ printed # <<>>) =>
        /\ printed[1] = "::group::Build " \o EntryName
        /\ printed[Len(printed)] = "\n::endgroup::"

\* The lines of both streams, stdout first, as run() is to log them.
CapturedLines == splitlines(proc.stdout) \o splitlines(proc.stderr)

Records(level) == SelectSeq(log, LAMBDA r : r.level = level)

C11_SecondRunChangesNothing ==
    mode = "replay" =>
        /\ outputDir = DOMAIN firstRun
        /\ DOMAIN contents = DOMAIN firstRun
        /\ pc \in {"done", "raised"} => (contents = firstRun /\ tape = <<>>)

C11_Witness ==
    /\ mode = "replay"
    /\ pc = "loop"
    /\ idx = 2
    /\ Cardinality(written) = 2
    /\ tape = <<>>
    /\ contents = firstRun

====
